---- MODULE Spec2Model ----
(***************************************************************************)
(* A model of scripts/process_epg.py: the timezone normaliser              *)
(* (convert_timezone), the merger (merge_epg_data), the writer             *)
(* (save_epg_data, generate_subscription_index) and the pipeline (main).   *)
(*                                                                         *)
(* Attribute values are sequences of one-character strings, so that        *)
(* len(), split(' '), strptime and strftime are computed on characters.    *)
(* An XML text is a record [wellformed, tv]: ET.fromstring succeeds on it  *)
(* exactly when wellformed holds, and then yields the tree tv.  A tree is  *)
(* [attrib, children]; a child is [tag, attrib, body], body being the      *)
(* content the program never looks at.                                     *)
(***************************************************************************)
EXTENDS Integers, Sequences, FiniteSets, TLC

VARIABLES
    epg_xml,          \* convert_timezone: the argument epg_xml
    target_timezone,  \* convert_timezone: the argument target_timezone
    converted,        \* convert_timezone: the value returned, NotCalled before
    cn_content,       \* merge_epg_data: the argument cn_content
    tw_content,       \* merge_epg_data: the argument tw_content
    merged,           \* merge_epg_data: the value returned, NotCalled before
    now,              \* what datetime.now() reads (a UTC instant)
    pc,               \* main: the position of the run
    remote,           \* main: what each URL answers (a text, or FetchError)
    processed_data,   \* main: the dict processed_data
    merged_epg,       \* main: the local merged_epg
    files,            \* the directory epg_data: name -> content written by this run
    dir_exists,       \* whether the directory epg_data exists
    disk_ok,          \* whether the file system lets the run create and write files
    subscribe_txt,    \* epg_data/subscribe.txt as this run wrote it
    exit_status,      \* how the process ended: "running", "ok" or "traceback"
    log               \* the messages printed so far

vars == <<epg_xml, target_timezone, converted, cn_content, tw_content, merged,
          now, pc, remote, processed_data, merged_epg, files, dir_exists,
          disk_ok, subscribe_txt, exit_status, log>>

\* Bounds of the model.
NumYears == 2
MaxChildren == 2

----------------------------------------------------------------------------
\* Characters and small string helpers.

DigitChars == <<"0", "1", "2", "3", "4", "5", "6", "7", "8", "9">>

IsDigit(c) == \E i \in 1..10 : DigitChars[i] = c

DigitVal(c) == (CHOOSE i \in 1..10 : DigitChars[i] = c) - 1

\* int() of the digits s[a..b]
RECURSIVE FieldVal(_, _, _)
FieldVal(s, a, b) ==
    IF b < a THEN 0 ELSE FieldVal(s, a, b - 1) * 10 + DigitVal(s[b])

\* a zero-padded decimal of n in w characters (%Y, %m, %d, %H, %M, %S)
RECURSIVE Pad(_, _)
Pad(n, w) ==
    IF w = 0 THEN <<>> ELSE Pad(n \div 10, w - 1) \o <<DigitChars[(n % 10) + 1]>>

\* str.split(' '): the parts between single spaces, empty parts included
RECURSIVE SplitFrom(_, _, _)
SplitFrom(s, i, cur) ==
    IF i > Len(s) THEN <<cur>>
    ELSE IF s[i] = " " THEN <<cur>> \o SplitFrom(s, i + 1, <<>>)
    ELSE SplitFrom(s, i + 1, Append(cur, s[i]))

Split(s) == SplitFrom(s, 1, <<>>)

HasSpace(s) == \E i \in 1..Len(s) : s[i] = " "

----------------------------------------------------------------------------
\* datetime: the proleptic Gregorian calendar of Python's datetime module.

IsLeap(y) == (y % 4 = 0) /\ ((y % 100 # 0) \/ (y % 400 = 0))

DaysInMonth(y, m) ==
    IF m = 2 THEN (IF IsLeap(y) THEN 29 ELSE 28)
    ELSE IF m \in {4, 6, 9, 11} THEN 30 ELSE 31

DaysBeforeYear(y) ==
    (y - 1) * 365 + ((y - 1) \div 4) - ((y - 1) \div 100) + ((y - 1) \div 400)

RECURSIVE DaysBeforeMonth(_, _)
DaysBeforeMonth(y, m) ==
    IF m = 1 THEN 0 ELSE DaysBeforeMonth(y, m - 1) + DaysInMonth(y, m - 1)

ToOrdinal(y, m, d) == DaysBeforeYear(y) + DaysBeforeMonth(y, m) + d

Years == 2023..(2022 + NumYears)

\* date.fromordinal, for ordinals within a year of the years modelled
FromOrdinal(n) ==
    LET y == CHOOSE yy \in 2022..(2023 + NumYears) :
                 DaysBeforeYear(yy) < n /\ n <= DaysBeforeYear(yy + 1)
        r == n - DaysBeforeYear(y)
        m == CHOOSE mm \in 1..12 :
                 DaysBeforeMonth(y, mm) < r /\ r <= DaysBeforeMonth(y, mm) + DaysInMonth(y, mm)
    IN [year |-> y, month |-> m, day |-> r - DaysBeforeMonth(y, m)]

ParseFailure == [ok |-> FALSE]

\* datetime.strptime(s, '%Y%m%d%H%M%S') for the values the model draws: a
\* ValueError unless s is fourteen digits naming a date and a time of day.
\* (The values drawn have a digit portion of 14 characters, or of fewer
\* than 9, or hold a character that is neither a digit nor a space.)
Strptime(s) ==
    IF Len(s) # 14 \/ (\E i \in 1..Len(s) : ~IsDigit(s[i])) THEN ParseFailure
    ELSE LET y  == FieldVal(s, 1, 4)
             mo == FieldVal(s, 5, 6)
             d  == FieldVal(s, 7, 8)
             h  == FieldVal(s, 9, 10)
             mi == FieldVal(s, 11, 12)
             se == FieldVal(s, 13, 14)
         IN IF y >= 1 /\ mo \in 1..12 /\ d >= 1 /\ d <= DaysInMonth(y, mo)
               /\ h <= 23 /\ mi <= 59 /\ se <= 59
            THEN [ok |-> TRUE, year |-> y, month |-> mo, day |-> d,
                  hour |-> h, minute |-> mi, second |-> se]
            ELSE ParseFailure

\* pytz.timezone(name).utcoffset, in minutes east of UTC, for the zones the
\* model passes; each has one fixed offset over the years modelled.
TargetZones == {"Asia/Shanghai", "Asia/Tokyo", "Etc/GMT+5"}

UtcOffset(zone) ==
    CASE zone = "Asia/Shanghai" -> 8 * 60
      [] zone = "Asia/Tokyo"    -> 9 * 60
      [] zone = "Etc/GMT+5"     -> 0 - 5 * 60

\* astimezone moving the hour alone, the date left as it was
AsTimezone_NoDateCarry(dt, zone) ==
    LET mins == (dt.hour * 60 + dt.minute + UtcOffset(zone) + 1440) % 1440
    IN [year |-> dt.year, month |-> dt.month, day |-> dt.day,
        hour |-> mins \div 60, minute |-> mins % 60, second |-> dt.second]

\* pytz.utc.localize(dt).astimezone(tz): the wall clock of the UTC instant dt
\* in the zone
AsTimezone(dt, zone) ==
    LET mins  == dt.hour * 60 + dt.minute + UtcOffset(zone)
        shift == IF mins < 0 THEN 0 - 1 ELSE IF mins >= 1440 THEN 1 ELSE 0
        local == mins - shift * 1440
        date  == FromOrdinal(ToOrdinal(dt.year, dt.month, dt.day) + shift)
    IN [year |-> date.year, month |-> date.month, day |-> date.day,
        hour |-> local \div 60, minute |-> local % 60, second |-> dt.second]

\* strftime('%Y%m%d%H%M%S')
Strftime14(dt) ==
    Pad(dt.year, 4) \o Pad(dt.month, 2) \o Pad(dt.day, 2)
        \o Pad(dt.hour, 2) \o Pad(dt.minute, 2) \o Pad(dt.second, 2)

\* strftime('%z') of a time in the zone: sign, hours, minutes
StrftimeZ(zone) ==
    LET off == UtcOffset(zone)
        mag == IF off < 0 THEN 0 - off ELSE off
    IN <<IF off < 0 THEN "-" ELSE "+">> \o Pad(mag \div 60, 2) \o Pad(mag % 60, 2)

----------------------------------------------------------------------------
\* XML texts and trees.

EmptyAttrib == [k \in {} |-> <<>>]

EmptyRoot == [attrib |-> EmptyAttrib, children |-> <<>>]

\* the absence of a text (Python's None, or a variable not yet assigned)
NoText == [wellformed |-> FALSE, tv |-> EmptyRoot]

\* ET.fromstring(text): the tree, or a ParseError
Parses(text) == text.wellformed

ETfromstring(text) == text.tv

\* ET.tostring(root, encoding='utf-8').decode()
ETtostring(root) == [wellformed |-> TRUE, tv |-> root]

\* root.findall('.//' + tag), in document order
FindAll(root, tag) == SelectSeq(root.children, LAMBDA e : e.tag = tag)

\* element.set(key, value)
SetAttr(attrib, key, value) ==
    [k \in (DOMAIN attrib) \cup {key} |-> IF k = key THEN value ELSE attrib[k]]

----------------------------------------------------------------------------
\* convert_timezone

TimeAttrs == <<"start", "stop", "start-time", "stop-time">>

TimeAttrSet == {TimeAttrs[i] : i \in 1..Len(TimeAttrs)}

FixedSuffix == <<" ", "+", "0", "8", "0", "0">>

\* The body of the try of lines 36-59 for one attribute value: the value the
\* attribute has afterwards, and whether the except clause ran.
ConvertAttr(original_time, zone) ==
    LET unchanged == [value |-> original_time, error |-> FALSE]
        failed    == [value |-> original_time, error |-> TRUE]
    IN IF Len(original_time) = 14
       THEN LET dt == Strptime(original_time)
            IN IF ~dt.ok THEN failed
               ELSE [value |-> Strftime14(AsTimezone(dt, zone)) \o <<" ">> \o StrftimeZ(zone),
                     error |-> FALSE]
       ELSE IF HasSpace(original_time)
       THEN LET parts == Split(original_time)
            IN IF Len(parts) # 2 THEN failed
               ELSE LET time_str == parts[1]
                        tz_str   == parts[2]
                        dt       == Strptime(time_str)
                    IN IF ~dt.ok THEN failed
                       ELSE LET dt_utc ==
                                    IF tz_str = <<"+", "0", "0", "0", "0">>
                                       \/ tz_str = <<"U", "T", "C">>
                                    THEN dt
                                    ELSE dt
                            IN [value |-> Strftime14(AsTimezone(dt_utc, zone)) \o FixedSuffix,
                                error |-> FALSE]
       ELSE unchanged

\* the loop of lines 34-59 with break for continue: nothing after the first
\* attribute that fails is converted
ConvertProgramme_BreakOnError(programme, zone) ==
    [programme EXCEPT !.attrib =
        [a \in DOMAIN programme.attrib |->
            IF a \in TimeAttrSet
               /\ ~\E i \in 1..Len(TimeAttrs) :
                       /\ TimeAttrs[i] \in DOMAIN programme.attrib
                       /\ ConvertAttr(programme.attrib[TimeAttrs[i]], zone).error
                       /\ \E j \in i..Len(TimeAttrs) : TimeAttrs[j] = a
            THEN ConvertAttr(programme.attrib[a], zone).value
            ELSE programme.attrib[a]]]

\* One programme after the loop of lines 34-59.
ConvertProgramme(programme, zone) ==
    [programme EXCEPT !.attrib =
        [a \in DOMAIN programme.attrib |->
            IF a \in TimeAttrSet THEN ConvertAttr(programme.attrib[a], zone).value
            ELSE programme.attrib[a]]]

\* The "Error processing time" messages of one programme, in attribute order.
RECURSIVE AttrErrors(_, _, _)
AttrErrors(programme, zone, i) ==
    IF i > Len(TimeAttrs) THEN <<>>
    ELSE (IF TimeAttrs[i] \in DOMAIN programme.attrib
             /\ ConvertAttr(programme.attrib[TimeAttrs[i]], zone).error
          THEN <<"Error processing time">> ELSE <<>>)
         \o AttrErrors(programme, zone, i + 1)

RECURSIVE TimeErrors(_, _, _)
TimeErrors(children, zone, i) ==
    IF i > Len(children) THEN <<>>
    ELSE (IF children[i].tag = "programme" THEN AttrErrors(children[i], zone, 1) ELSE <<>>)
         \o TimeErrors(children, zone, i + 1)

\* convert_timezone answering a text that does not parse with an empty
\* document in its place
convert_timezone_DropsUnparsed(text, zone, clock) ==
    IF ~Parses(text)
    THEN [ret |-> ETtostring(EmptyRoot),
          out |-> <<"Converting timezone to Asia/Shanghai...", "XML parsing error">>]
    ELSE [ret |-> ETtostring(
              [attrib |-> SetAttr(ETfromstring(text).attrib, "date",
                                  Strftime14(AsTimezone(clock, zone))),
               children |-> [i \in 1..Len(ETfromstring(text).children) |->
                                IF ETfromstring(text).children[i].tag = "programme"
                                THEN ConvertProgramme(ETfromstring(text).children[i], zone)
                                ELSE ETfromstring(text).children[i]]]),
          out |-> <<"Converting timezone to Asia/Shanghai...">>
                     \o TimeErrors(ETfromstring(text).children, zone, 1)]

\* convert_timezone(text, zone) at the instant clock: the text returned and
\* the messages printed.
convert_timezone(text, zone, clock) ==
    IF ~Parses(text)
    THEN [ret |-> text,
          out |-> <<"Converting timezone to Asia/Shanghai...", "XML parsing error">>]
    ELSE LET root  == ETfromstring(text)
             dated == SetAttr(root.attrib, "date", Strftime14(AsTimezone(clock, zone)))
             kids  == [i \in 1..Len(root.children) |->
                          IF root.children[i].tag = "programme"
                          THEN ConvertProgramme(root.children[i], zone)
                          ELSE root.children[i]]
         IN [ret |-> ETtostring([attrib |-> dated, children |-> kids]),
             out |-> <<"Converting timezone to Asia/Shanghai...">>
                        \o TimeErrors(root.children, zone, 1)]

----------------------------------------------------------------------------
\* merge_epg_data

MergedAttrib ==
    [k \in {"source-info-name", "source-info-url",
            "generator-info-name", "generator-info-url"} |->
        CASE k = "source-info-name"    -> "Merged EPG"
          [] k = "source-info-url"     -> "https://github.com/9602894/JMYG"
          [] k = "generator-info-name" -> "JMYG EPG Merger"
          [] k = "generator-info-url"  -> "https://github.com/9602894/JMYG"]

\* a sequence without the later copies of its elements
RECURSIVE DropRepeats(_)
DropRepeats(q) ==
    IF q = <<>> THEN <<>>
    ELSE LET front == DropRepeats(SubSeq(q, 1, Len(q) - 1))
             last  == q[Len(q)]
         IN IF \E i \in 1..Len(front) : front[i] = last THEN front ELSE Append(front, last)

\* merge_epg_data with the programmes deduplicated like a set
merge_epg_data_DedupProgrammes(cn, tw) ==
    IF ~Parses(cn) \/ ~Parses(tw)
    THEN [none |-> TRUE, ret |-> NoText, out |-> <<"Error merging EPG data">>]
    ELSE [none |-> FALSE,
          ret |-> ETtostring(
              [attrib |-> MergedAttrib,
               children |-> FindAll(ETfromstring(cn), "channel")
                            \o FindAll(ETfromstring(tw), "channel")
                            \o DropRepeats(FindAll(ETfromstring(cn), "programme")
                                           \o FindAll(ETfromstring(tw), "programme"))]),
          out |-> <<>>]

\* merge_epg_data(cn, tw): the text returned (none: Python's None) and the
\* messages printed.  Either ET.fromstring raising ends in the except clause.
merge_epg_data(cn, tw) ==
    IF ~Parses(cn) \/ ~Parses(tw)
    THEN [none |-> TRUE, ret |-> NoText, out |-> <<"Error merging EPG data">>]
    ELSE LET root_cn == ETfromstring(cn)
             root_tw == ETfromstring(tw)
             merged_root ==
                 [attrib |-> MergedAttrib,
                  children |-> FindAll(root_cn, "channel") \o FindAll(root_tw, "channel")
                               \o FindAll(root_cn, "programme") \o FindAll(root_tw, "programme")]
         IN [none |-> FALSE, ret |-> ETtostring(merged_root), out |-> <<>>]

----------------------------------------------------------------------------
\* The texts convert_timezone is given.

Months == {1, 2, 4, 9, 12}
Days == {1, 28, 29, 30, 31}
Hours == {0, 12, 15, 16, 23}
MinSecs == {0, 59}

\* fourteen digits YYYYMMDDHHMMSS; a day past the end of its month (0230,
\* 0431) is among them and is no date
StampDigits ==
    {Pad(y, 4) \o Pad(m, 2) \o Pad(d, 2) \o Pad(h, 2) \o Pad(ms, 2) \o Pad(ms, 2) :
        y \in Years, m \in Months, d \in Days, h \in Hours, ms \in MinSecs}

\* fourteen digits that name no time, and values of other shapes
BadDigits ==
    {<<"2", "0", "2", "4", "1", "3", "0", "1", "1", "2", "0", "0", "0", "0">>,
     <<"2", "0", "2", "4", "0", "1", "0", "1", "2", "4", "0", "0", "0", "0">>,
     <<"2", "0", "2", "4", "0", "1", "0", "1", "1", "2", "6", "0", "0", "0">>,
     <<"2", "0", "2", "4", "0", "1", "0", "0", "1", "2", "0", "0", "0", "0">>,
     <<"2", "0", "2", "4", "0", "1", "0", "1", "1", "2", "0", "0", "x", "x">>}

FewStamps ==
    {Pad(2024, 4) \o Pad(1, 2) \o Pad(1, 2) \o Pad(120000, 6),
     Pad(2024, 4) \o Pad(2, 2) \o Pad(28, 2) \o Pad(160000, 6),
     Pad(2023, 4) \o Pad(12, 2) \o Pad(31, 2) \o Pad(235959, 6),
     Pad(2023, 4) \o Pad(1, 2) \o Pad(1, 2) \o Pad(3000, 6)}

OddShapes ==
    {<<>>,
     <<"2", "0", "2", "4">>,
     <<"t", "o", "d", "a", "y">>,
     <<"2", "0", "2", "4", "0", "1", "0", "1", "1", "2", "0", "0", "0", "0", "Z">>}

OffsetTokens ==
    {<<"+", "0", "0", "0", "0">>, <<"U", "T", "C">>,
     <<"+", "0", "9", "0", "0">>, <<"-", "0", "5", "0", "0">>}

\* fourteen digits, a space and an offset token (or nothing after the space)
Suffixed ==
    {d \o <<" ", "+", "0", "0", "0", "0">> : d \in StampDigits}
    \cup {d \o <<" ">> \o t : d \in FewStamps \cup BadDigits, t \in OffsetTokens \cup {<<>>}}

\* more than one space
TwoSpaces ==
    {d \o <<" ", " ">> \o t : d \in FewStamps, t \in OffsetTokens}
    \cup {d \o <<" ">> \o t \o <<" ", "x">> : d \in FewStamps, t \in OffsetTokens}

TimeValues == StampDigits \cup BadDigits \cup OddShapes \cup Suffixed \cup TwoSpaces

\* the second value of a document: one of each kind
FewValues ==
    {Pad(2024, 4) \o Pad(1, 2) \o Pad(1, 2) \o Pad(120000, 6),
     Pad(2024, 4) \o Pad(12, 2) \o Pad(31, 2) \o Pad(235959, 6) \o <<" ", "+", "0", "0", "0", "0">>}

Channel(id, body) ==
    [tag |-> "channel", attrib |-> [k \in {"id"} |-> id], body |-> body]

\* a document of one channel and two programmes carrying v and w
TimedRoot(v, w) ==
    [attrib |-> [k \in {"generator-info-name"} |-> <<"e", "p", "g">>],
     children |->
        <<Channel(<<"c", "1">>, "CCTV1"),
          [tag |-> "programme",
           attrib |-> [k \in {"channel", "start", "stop"} |->
                          CASE k = "channel" -> <<"c", "1">>
                            [] k = "start"   -> v
                            [] k = "stop"    -> w],
           body |-> "News"],
          [tag |-> "programme",
           attrib |-> [k \in {"channel", "start-time", "stop-time"} |->
                          CASE k = "channel"    -> <<"c", "1">>
                            [] k = "start-time" -> w
                            [] k = "stop-time"  -> v],
           body |-> "Film"]>>]

ConvertInputs ==
    {[wellformed |-> TRUE, tv |-> TimedRoot(v, w)] : v \in TimeValues, w \in FewValues}
    \cup {[wellformed |-> FALSE, tv |-> TimedRoot(v, w)] : v \in FewValues, w \in FewValues}

\* what datetime.now() may read
Clock ==
    {[year |-> 2024, month |-> 2, day |-> 29, hour |-> 18, minute |-> 30, second |-> 5]}

NotCalled == [called |-> FALSE, none |-> TRUE, text |-> NoText]

Returned(text) == [called |-> TRUE, none |-> FALSE, text |-> text]

NoFiles == [k \in {} |-> NoText]

\* the variables of main, while a function is exercised on its own
MainIdle ==
    /\ pc = "idle"
    /\ remote = NoFiles
    /\ processed_data = NoFiles
    /\ merged_epg = NotCalled
    /\ files = NoFiles
    /\ dir_exists = FALSE
    /\ disk_ok = TRUE
    /\ subscribe_txt = <<>>
    /\ exit_status = "running"

MergeIdle ==
    /\ cn_content = NoText
    /\ tw_content = NoText
    /\ merged = NotCalled

InitConvert ==
    /\ epg_xml \in ConvertInputs
    /\ target_timezone \in TargetZones
    /\ now \in Clock
    /\ converted = NotCalled
    /\ MergeIdle
    /\ log = <<>>
    /\ MainIdle

\* one call convert_timezone(epg_xml, target_timezone)
ConvertCall ==
    /\ pc = "idle"
    /\ ~converted.called
    /\ LET r == convert_timezone(epg_xml, target_timezone, now)
       IN /\ converted' = Returned(r.ret)
          /\ log' = log \o r.out
    /\ UNCHANGED <<epg_xml, target_timezone, cn_content, tw_content, merged, now, pc,
                   remote, processed_data, merged_epg, files, dir_exists, disk_ok,
                   subscribe_txt, exit_status>>

NextConvert == ConvertCall

SpecConvert == InitConvert /\ [][NextConvert]_vars

----------------------------------------------------------------------------
\* The texts merge_epg_data is given.

ChannelIds == {<<"c", "1">>, <<"c", "2">>}

Programme(channel, start, body) ==
    [tag |-> "programme",
     attrib |-> [k \in {"channel", "start"} |-> IF k = "channel" THEN channel ELSE start],
     body |-> body]

ProgrammePool ==
    {Programme(<<"c", "1">>, Pad(2024, 4) \o Pad(1, 2) \o Pad(1, 2) \o Pad(200000, 6) \o FixedSuffix, "News"),
     Programme(<<"c", "2">>, Pad(2024, 4) \o Pad(1, 2) \o Pad(1, 2) \o Pad(210000, 6) \o FixedSuffix, "Film")}

\* the children a source may have; version tells the two sources' channels apart
Pool(version) == {Channel(id, version) : id \in ChannelIds} \cup ProgrammePool

\* a document names each channel once
UniqueIds(children) ==
    \A i, j \in 1..Len(children) :
        (i # j /\ children[i].tag = "channel" /\ children[j].tag = "channel")
            => children[i].attrib["id"] # children[j].attrib["id"]

SourceRoots(version) ==
    {[attrib |-> EmptyAttrib, children |-> c] :
        c \in {cc \in UNION {[1..n -> Pool(version)] : n \in 0..MaxChildren} : UniqueIds(cc)}}

\* a text cut short in transit: not well-formed
Truncated(version) ==
    {[wellformed |-> FALSE, tv |-> r] :
        r \in {rr \in SourceRoots(version) : Len(rr.children) = 1}}

SourceTexts(version) ==
    {[wellformed |-> TRUE, tv |-> r] : r \in SourceRoots(version)} \cup Truncated(version)

ConvertIdle ==
    /\ epg_xml = NoText
    /\ target_timezone = "Asia/Shanghai"
    /\ converted = NotCalled

InitMerge ==
    /\ cn_content \in SourceTexts("CN")
    /\ tw_content \in SourceTexts("TW")
    /\ merged = NotCalled
    /\ now \in Clock
    /\ log = <<>>
    /\ ConvertIdle
    /\ MainIdle

\* one call merge_epg_data(cn_content, tw_content)
MergeCall ==
    /\ pc = "idle"
    /\ ~merged.called
    /\ LET r == merge_epg_data(cn_content, tw_content)
       IN /\ merged' = [called |-> TRUE, none |-> r.none, text |-> r.ret]
          /\ log' = log \o r.out
    /\ UNCHANGED <<epg_xml, target_timezone, converted, cn_content, tw_content, now, pc,
                   remote, processed_data, merged_epg, files, dir_exists, disk_ok,
                   subscribe_txt, exit_status>>

NextMerge == MergeCall

SpecMerge == InitMerge /\ [][NextMerge]_vars

----------------------------------------------------------------------------
\* save_epg_data, generate_subscription_index and main

\* epg_sources, in the order the loop of main visits them
epg_sources == <<"epg_cn.xml", "epg_tw.xml">>

Gz(filename) ==
    CASE filename = "epg_cn.xml"     -> "epg_cn.xml.gz"
      [] filename = "epg_tw.xml"     -> "epg_tw.xml.gz"
      [] filename = "epg_merged.xml" -> "epg_merged.xml.gz"

\* save_epg_data(content, filename) when nothing raises: the directory and
\* the two files afterwards
Saved(content, filename) ==
    [k \in (DOMAIN files) \cup {filename, Gz(filename)} |->
        IF k \in {filename, Gz(filename)} THEN content ELSE files[k]]

\* the locations generate_subscription_index lists, each under base_url
index_content ==
    <<"epg_cn.xml", "epg_tw.xml", "epg_cn.xml.gz", "epg_tw.xml.gz",
      "epg_merged.xml", "epg_merged.xml.gz">>

\* what a URL may answer: an error of requests, or a text
FetchError == [ok |-> FALSE, text |-> NoText]

MainRoots(version) ==
    {r \in SourceRoots(version) :
        \/ r.children = <<>>
        \/ /\ Len(r.children) = 2
           /\ \E i, j \in 1..2 : /\ r.children[i].tag = "channel"
                                 /\ r.children[j].tag = "programme"}

Answers(version) ==
    {FetchError}
    \cup {[ok |-> TRUE, text |-> [wellformed |-> TRUE, tv |-> r]] : r \in MainRoots(version)}
    \cup {[ok |-> TRUE, text |-> t] : t \in Truncated(version)}

Init ==
    /\ pc = "loop1"
    /\ \E a \in Answers("CN"), b \in Answers("TW") :
           remote = [f \in {"epg_cn.xml", "epg_tw.xml"} |-> IF f = "epg_cn.xml" THEN a ELSE b]
    /\ processed_data = NoFiles
    /\ merged_epg = NotCalled
    /\ files = NoFiles
    /\ dir_exists \in BOOLEAN
    /\ disk_ok \in BOOLEAN
    /\ subscribe_txt = <<>>
    /\ exit_status = "running"
    /\ now \in Clock
    /\ log = <<>>
    /\ ConvertIdle
    /\ MergeIdle

\* One pass of the loop of lines 136-149: download, convert, save, record;
\* any exception is printed and the loop goes on.
ProcessSource ==
    /\ pc \in {"loop1", "loop2"}
    /\ LET filename == IF pc = "loop1" THEN epg_sources[1] ELSE epg_sources[2]
           answer   == remote[filename]
           r        == convert_timezone(answer.text, "Asia/Shanghai", now)
       IN IF ~answer.ok
          THEN /\ log' = log \o <<"Downloading EPG", "Error processing">>
               /\ UNCHANGED <<files, dir_exists, processed_data>>
          ELSE IF ~disk_ok
          THEN /\ log' = log \o <<"Downloading EPG">> \o r.out \o <<"Error processing">>
               /\ UNCHANGED <<files, dir_exists, processed_data>>
          ELSE /\ log' = log \o <<"Downloading EPG">> \o r.out \o <<"Saved">>
               /\ dir_exists' = TRUE
               /\ files' = Saved(r.ret, filename)
               /\ processed_data' =
                      [k \in (DOMAIN processed_data) \cup {filename} |->
                          IF k = filename THEN r.ret ELSE processed_data[k]]
    /\ pc' = IF pc = "loop1" THEN "loop2" ELSE "merge"
    /\ UNCHANGED <<epg_xml, target_timezone, converted, cn_content, tw_content, merged,
                   now, remote, merged_epg, disk_ok, subscribe_txt, exit_status>>

\* Lines 151-155: merge when both sources were processed, save what merged.
\* An exception of save_epg_data here is caught by nothing.
MergeStep ==
    /\ pc = "merge"
    /\ IF {"epg_cn.xml", "epg_tw.xml"} \subseteq DOMAIN processed_data
       THEN LET r == merge_epg_data(processed_data["epg_cn.xml"], processed_data["epg_tw.xml"])
            IN /\ merged_epg' = [called |-> TRUE, none |-> r.none, text |-> r.ret]
               /\ IF r.none
                  THEN /\ log' = log \o r.out
                       /\ pc' = "index"
                       /\ UNCHANGED <<files, dir_exists, exit_status>>
                  ELSE IF ~disk_ok
                  THEN /\ log' = log \o r.out \o <<"Traceback">>
                       /\ pc' = "exit"
                       /\ exit_status' = "traceback"
                       /\ UNCHANGED <<files, dir_exists>>
                  ELSE /\ log' = log \o r.out \o <<"Saved">>
                       /\ pc' = "index"
                       /\ dir_exists' = TRUE
                       /\ files' = Saved(r.ret, "epg_merged.xml")
                       /\ UNCHANGED exit_status
       ELSE /\ pc' = "index"
            /\ UNCHANGED <<merged_epg, log, files, dir_exists, exit_status>>
    /\ UNCHANGED <<epg_xml, target_timezone, converted, cn_content, tw_content, merged,
                   now, remote, processed_data, disk_ok, subscribe_txt>>

\* Lines 157-159: generate_subscription_index opens epg_data/subscribe.txt
\* without creating the directory; then the closing message.
IndexStep ==
    /\ pc = "index"
    /\ IF disk_ok /\ dir_exists
       THEN /\ subscribe_txt' = index_content
            /\ log' = log \o <<"EPG processing completed!">>
            /\ exit_status' = "ok"
       ELSE /\ log' = log \o <<"Traceback">>
            /\ exit_status' = "traceback"
            /\ UNCHANGED subscribe_txt
    /\ pc' = "exit"
    /\ UNCHANGED <<epg_xml, target_timezone, converted, cn_content, tw_content, merged,
                   now, remote, processed_data, merged_epg, files, dir_exists, disk_ok>>

\* The environment: from some moment on the file system refuses every write.
DiskFails ==
    /\ pc \in {"loop1", "loop2", "merge", "index"}
    /\ disk_ok
    /\ disk_ok' = FALSE
    /\ UNCHANGED <<epg_xml, target_timezone, converted, cn_content, tw_content, merged,
                   now, pc, remote, processed_data, merged_epg, files, dir_exists,
                   subscribe_txt, exit_status, log>>

Next == ProcessSource \/ MergeStep \/ IndexStep \/ DiskFails

Spec == Init /\ [][Next]_vars

----------------------------------------------------------------------------
\* Properties of merge_epg_data (stated for SpecMerge).

ChannelsIn(text) == SelectSeq(text.tv.children, LAMBDA e : e.tag = "channel")

ProgrammesIn(text) == SelectSeq(text.tv.children, LAMBDA e : e.tag = "programme")

IdsIn(text) == {ChannelsIn(text)[i].attrib["id"] : i \in 1..Len(ChannelsIn(text))}

BothParse == cn_content.wellformed /\ tw_content.wellformed

\* C1: for two well-formed documents the merged output holds exactly one
\* channel for each distinct non-empty channel id of D1 or D2, no id twice,
\* and for an id of both documents the channel kept is D1's.
C1_ChannelsDeduplicated ==
    (merged.called /\ BothParse) =>
        /\ ~merged.none
        /\ LET out == ChannelsIn(merged.text)
           IN /\ \A i, j \in 1..Len(out) : i # j => out[i].attrib["id"] # out[j].attrib["id"]
              /\ IdsIn(merged.text) = (IdsIn(cn_content) \cup IdsIn(tw_content)) \ {<<>>}
              /\ \A i \in 1..Len(out) :
                     out[i].attrib["id"] \in IdsIn(cn_content)
                         => \E k \in 1..Len(ChannelsIn(cn_content)) :
                                ChannelsIn(cn_content)[k] = out[i]

\* C2: for two well-formed documents the merged output holds every programme
\* of D1 in source order, then every programme of D2 in source order:
\* |D1.programmes| + |D2.programmes| of them, none dropped or deduplicated.
C2_ProgrammesConcatenated ==
    (merged.called /\ BothParse) =>
        /\ ~merged.none
        /\ merged.text.wellformed
        /\ LET out == ProgrammesIn(merged.text)
               p1  == ProgrammesIn(cn_content)
               p2  == ProgrammesIn(tw_content)
           IN /\ Len(out) = Len(p1) + Len(p2)
              /\ \A i \in 1..Len(out) :
                     out[i] = IF i <= Len(p1) THEN p1[i] ELSE p2[i - Len(p1)]

\* D1 holds two different programmes, D2 a copy of D1's first one, and the
\* merge has returned.
C2_Witness ==
    /\ merged.called
    /\ BothParse
    /\ Len(ProgrammesIn(cn_content)) = 2
    /\ ProgrammesIn(cn_content)[1] # ProgrammesIn(cn_content)[2]
    /\ \E k \in 1..Len(ProgrammesIn(tw_content)) :
           ProgrammesIn(tw_content)[k] = ProgrammesIn(cn_content)[1]
    /\ Len(ProgrammesIn(merged.text)) >= 3

\* C5: when exactly one of the two documents fails to parse, the merge still
\* returns a document, holding the channels and programmes of the document
\* that parsed.
C5_UnparsableSkipped ==
    (merged.called /\ (cn_content.wellformed # tw_content.wellformed)) =>
        LET good == IF cn_content.wellformed THEN cn_content ELSE tw_content
        IN /\ ~merged.none
           /\ ChannelsIn(merged.text) = ChannelsIn(good)
           /\ ProgrammesIn(merged.text) = ProgrammesIn(good)

----------------------------------------------------------------------------
\* Properties of convert_timezone (stated for SpecConvert).  The expected
\* wall clock is worked out by carrying by hand, apart from the model's
\* ordinal arithmetic.

AllDigits(v) ==
    \A i \in 1..Len(v) : v[i] \in {"0", "1", "2", "3", "4", "5", "6", "7", "8", "9"}

LeapYear(y) == IF y % 400 = 0 THEN TRUE ELSE IF y % 100 = 0 THEN FALSE ELSE y % 4 = 0

MonthLength(y, m) ==
    <<31, 28, 31, 30, 31, 30, 31, 31, 30, 31, 30, 31>>[m]
        + (IF m = 2 /\ LeapYear(y) THEN 1 ELSE 0)

\* fourteen digits that name a date and a time of day
ValidStamp(v) ==
    /\ Len(v) = 14
    /\ AllDigits(v)
    /\ FieldVal(v, 5, 6) \in 1..12
    /\ FieldVal(v, 7, 8) \in 1..MonthLength(FieldVal(v, 1, 4), FieldVal(v, 5, 6))
    /\ FieldVal(v, 9, 10) \in 0..23
    /\ FieldVal(v, 11, 12) \in 0..59
    /\ FieldVal(v, 13, 14) \in 0..59

\* the valid stamp v moved by a whole number of hours, as fourteen digits
Shifted(v, hours) ==
    LET y  == FieldVal(v, 1, 4)
        m  == FieldVal(v, 5, 6)
        d  == FieldVal(v, 7, 8)
        hh == FieldVal(v, 9, 10) + hours
        ymd == IF hh >= 24
               THEN (IF d < MonthLength(y, m) THEN <<y, m, d + 1>>
                     ELSE IF m < 12 THEN <<y, m + 1, 1>>
                     ELSE <<y + 1, 1, 1>>)
               ELSE IF hh < 0
               THEN (IF d > 1 THEN <<y, m, d - 1>>
                     ELSE IF m > 1 THEN <<y, m - 1, MonthLength(y, m - 1)>>
                     ELSE <<y - 1, 12, 31>>)
               ELSE <<y, m, d>>
        h == IF hh >= 24 THEN hh - 24 ELSE IF hh < 0 THEN hh + 24 ELSE hh
    IN Pad(ymd[1], 4) \o Pad(ymd[2], 2) \o Pad(ymd[3], 2) \o Pad(h, 2) \o SubSeq(v, 11, 14)

\* the target zone's offset in hours, and as the token +HHMM
TargetHours ==
    CASE target_timezone = "Asia/Shanghai" -> 8
      [] target_timezone = "Asia/Tokyo"    -> 9
      [] target_timezone = "Etc/GMT+5"     -> 0 - 5

TargetToken ==
    CASE target_timezone = "Asia/Shanghai" -> <<"+", "0", "8", "0", "0">>
      [] target_timezone = "Asia/Tokyo"    -> <<"+", "0", "9", "0", "0">>
      [] target_timezone = "Etc/GMT+5"     -> <<"-", "0", "5", "0", "0">>

SpaceCount(v) == Cardinality({i \in 1..Len(v) : v[i] = " "})

\* fourteen valid digits, a space and an offset token
SuffixedStamp(v) ==
    /\ Len(v) > 15
    /\ v[15] = " "
    /\ SpaceCount(v) = 1
    /\ ValidStamp(SubSeq(v, 1, 14))

\* the values a conversion can read, and the part of them that is the stamp
Parseable(v) ==
    \/ ValidStamp(v)
    \/ Len(v) >= 15 /\ v[15] = " " /\ SpaceCount(v) = 1 /\ ValidStamp(SubSeq(v, 1, 14))

\* bad digits, more than one space, or neither 14 characters nor a space
Unparseable(v) ==
    \/ Len(v) = 14 /\ ~ValidStamp(v)
    \/ SpaceCount(v) > 1
    \/ Len(v) # 14 /\ SpaceCount(v) = 0
    \/ Len(v) # 14 /\ SpaceCount(v) = 1
          /\ ~(Len(v) >= 15 /\ v[15] = " " /\ ValidStamp(SubSeq(v, 1, 14)))

ConvertedOf(i) == converted.text.tv.children[i]

GivenOf(i) == epg_xml.tv.children[i]

TimedAttrsOf(i) ==
    {a \in {"start", "stop", "start-time", "stop-time"} :
        GivenOf(i).tag = "programme" /\ a \in DOMAIN GivenOf(i).attrib}

ConvertedDocument == converted.called /\ epg_xml.wellformed

\* C3: with the target offset +0800, every start, stop, start-time or
\* stop-time that is a valid 14-digit timestamp without offset becomes the
\* wall clock 8 hours later (carrying over hour, day, month and year)
\* followed by " +0800".
C3_PlainStampPlusEight ==
    (ConvertedDocument /\ target_timezone = "Asia/Shanghai") =>
        \A i \in 1..Len(epg_xml.tv.children) : \A a \in TimedAttrsOf(i) :
            ValidStamp(GivenOf(i).attrib[a])
                => ConvertedOf(i).attrib[a]
                       = Shifted(GivenOf(i).attrib[a], 8) \o <<" ", "+", "0", "8", "0", "0">>

\* start 20231231160000 has become 20240101000000 +0800 (the year carried)
\* and stop 20240101120000 has become 20240101200000 +0800.
C3_Witness ==
    /\ ConvertedDocument
    /\ target_timezone = "Asia/Shanghai"
    /\ GivenOf(2).attrib["start"]
           = <<"2", "0", "2", "3", "1", "2", "3", "1", "1", "6", "0", "0", "0", "0">>
    /\ ConvertedOf(2).attrib["start"]
           = <<"2", "0", "2", "4", "0", "1", "0", "1", "0", "0", "0", "0", "0", "0",
               " ", "+", "0", "8", "0", "0">>
    /\ GivenOf(2).attrib["stop"]
           = <<"2", "0", "2", "4", "0", "1", "0", "1", "1", "2", "0", "0", "0", "0">>
    /\ ConvertedOf(2).attrib["stop"]
           = <<"2", "0", "2", "4", "0", "1", "0", "1", "2", "0", "0", "0", "0", "0",
               " ", "+", "0", "8", "0", "0">>

\* C4: for every target, a timestamp attribute of 14 digits, a space and an
\* offset token becomes the wall clock of its digits (read as UTC) at the
\* target offset, followed by a space and the target offset's own +HHMM.
C4_SuffixIsTargetOffset ==
    ConvertedDocument =>
        \A i \in 1..Len(epg_xml.tv.children) : \A a \in TimedAttrsOf(i) :
            SuffixedStamp(GivenOf(i).attrib[a])
                => ConvertedOf(i).attrib[a]
                       = Shifted(SubSeq(GivenOf(i).attrib[a], 1, 14), TargetHours)
                             \o <<" ">> \o TargetToken

\* C9: an attribute value that cannot be parsed is left as it was, every
\* parseable timestamp attribute of the same and of later programmes is
\* still converted, and the document is returned.
C9_BadValueKeptOthersConverted ==
    ConvertedDocument =>
        /\ ~converted.none
        /\ converted.text.wellformed
        /\ Len(converted.text.tv.children) = Len(epg_xml.tv.children)
        /\ \A i \in 1..Len(epg_xml.tv.children) : \A a \in TimedAttrsOf(i) :
               LET v == GivenOf(i).attrib[a]
                   w == ConvertedOf(i).attrib[a]
               IN /\ Unparseable(v) => w = v
                  /\ Parseable(v) =>
                         /\ Len(w) = 20
                         /\ SubSeq(w, 1, 14) = Shifted(SubSeq(v, 1, 14), TargetHours)

\* The first programme's start cannot be parsed and is unchanged, its stop
\* and the second programme's start-time are converted.
C9_Witness ==
    /\ ConvertedDocument
    /\ Unparseable(GivenOf(2).attrib["start"])
    /\ ConvertedOf(2).attrib["start"] = GivenOf(2).attrib["start"]
    /\ Parseable(GivenOf(2).attrib["stop"])
    /\ ConvertedOf(2).attrib["stop"] # GivenOf(2).attrib["stop"]
    /\ Parseable(GivenOf(3).attrib["start-time"])
    /\ ConvertedOf(3).attrib["start-time"] # GivenOf(3).attrib["start-time"]

----------------------------------------------------------------------------
\* Properties of main (stated for Spec).

\* the loop of main is past the k-th source
LoopPassed(k) ==
    IF k = 1 THEN pc \in {"loop2", "merge", "index", "exit"}
    ELSE pc \in {"merge", "index", "exit"}

Printed(message) == \E i \in 1..Len(log) : log[i] = message

\* C6: in a run where the merge yields no merged document but at least one
\* source was processed, that source's document is published as
\* epg_merged.xml and epg_merged.xml.gz before the run ends.
C6_FallbackPublished ==
    (/\ pc = "exit"
     /\ exit_status = "ok"
     /\ ~merged_epg.called \/ merged_epg.none
     /\ DOMAIN processed_data # {}) =>
        /\ {"epg_merged.xml", "epg_merged.xml.gz"} \subseteq DOMAIN files
        /\ \E f \in DOMAIN processed_data :
               /\ files["epg_merged.xml"] = processed_data[f]
               /\ files["epg_merged.xml.gz"] = processed_data[f]

\* C7: a fetch failure of one or of both sources is never fatal: every source
\* that did answer is saved, the index step is reached and the run ends
\* normally with "EPG processing completed!", unless output files cannot be
\* written.
C7_FetchFailureNeverFatal ==
    (pc = "exit" /\ disk_ok) =>
        /\ exit_status = "ok"
        /\ subscribe_txt # <<>>
        /\ log[Len(log)] = "EPG processing completed!"
        /\ \A f \in DOMAIN remote : remote[f].ok => f \in DOMAIN files

\* C8: when a run completes and has written subscribe.txt, every artifact
\* the index lists was written by save_epg_data during that run.
C8_IndexListsOnlyWritten ==
    (pc = "exit" /\ exit_status = "ok") =>
        \A i \in 1..Len(subscribe_txt) : subscribe_txt[i] \in DOMAIN files

\* C10: a text that is not well-formed XML comes back from convert_timezone
\* unchanged, with the parse error printed and nothing raised, so main saves
\* it under the source's name (and .gz) and carries on.
C10_MalformedPassedThrough ==
    \A k \in 1..2 :
        LET f == epg_sources[k]
        IN (LoopPassed(k) /\ remote[f].ok /\ ~remote[f].text.wellformed /\ disk_ok) =>
               /\ {f, Gz(f)} \subseteq DOMAIN files
               /\ files[f] = remote[f].text
               /\ files[Gz(f)] = remote[f].text
               /\ f \in DOMAIN processed_data
               /\ processed_data[f] = remote[f].text
               /\ Printed("XML parsing error")
               /\ exit_status # "traceback"

\* The first source answered a text that does not parse, the second a
\* document; both were saved and the run ended normally.
C10_Witness ==
    /\ pc = "exit"
    /\ exit_status = "ok"
    /\ remote["epg_cn.xml"].ok
    /\ ~remote["epg_cn.xml"].text.wellformed
    /\ remote["epg_cn.xml"].text.tv.children # <<>>
    /\ files["epg_cn.xml"] = remote["epg_cn.xml"].text
    /\ remote["epg_tw.xml"].ok
    /\ remote["epg_tw.xml"].text.wellformed
    /\ "epg_tw.xml" \in DOMAIN files

====
